---- MODULE Spec2Model ----
(***************************************************************************)
(* Model of modules/mmap_store.py: build_sequence_store (the builder of    *)
(* the .mmidx / .mmdata file pair) and SequenceMmapStore (the reader).     *)
(* Files are byte sequences; struct packing is little-endian, as in the    *)
(* source.  A file opened for writing is buffered: bytes passed to write() *)
(* sit in the buffer until a flush or the close of the file.               *)
(***************************************************************************)
EXTENDS Integers, Sequences, FiniteSets, TLC

VARIABLES
    seq_dict,    \* the input mapping, in iteration order: Seq of [key, val]
    idx_file,    \* index file on disk: [exists, bytes]
    data_file,   \* data file on disk:  [exists, bytes]
    idx_buf,     \* bytes written to idx_f and not yet flushed
    data_buf,    \* bytes written to data_f and not yet flushed
    bpc,         \* position of build_sequence_store
    items,       \* build: the (sorted) item list
    bi,          \* build: 1-based position of the write loop in items
    offset,      \* build: running offset
    bexc,        \* build: name of the exception raised, "" if none
    rd,          \* reader object: "new", "open" (constructed), "failed"
    index_fd, data_fd, index_mm, data_mm,  \* "none", "open", "closed"
    key_size, count,                       \* reader attributes
    rexc,        \* exception the constructor raised, "" if none
    closed,      \* close() has been called (it returned or raised)
    cfault,      \* the release call that raised in the last close(), "" if none
    res,         \* outcome of the last query since the reader last changed
    spc, skey, lo, hi, mid, sret   \* _find_index run one loop iteration at a time

bvars == <<seq_dict, idx_file, data_file, idx_buf, data_buf, bpc, items,
           bi, offset, bexc>>
rvars == <<rd, index_fd, data_fd, index_mm, data_mm, key_size, count, rexc,
           closed, cfault, res>>
svars == <<spc, skey, lo, hi, mid, sret>>
vars == <<bvars, rvars, svars>>

\* ------------------------------------------------------------ bounds
MaxEntries == 3

\* ------------------------------------------------------------ format
MAGIC == <<85, 76, 84, 82, 65, 77, 77, 49>>
HEADER_SIZE == 20
OFFSET_SIZE == 12

Min(a, b) == IF a < b THEN a ELSE b

\* struct "<I" / "<Q": n as w little-endian bytes
RECURSIVE PackLE(_, _)
PackLE(n, w) == IF w = 0 THEN <<>> ELSE <<n % 256>> \o PackLE(n \div 256, w - 1)

RECURSIVE UnpackLE(_)
UnpackLE(bs) ==
    IF bs = <<>> THEN 0 ELSE Head(bs) + 256 * UnpackLE(Tail(bs))

\* Python slice s[a:b] of a bytes-like object (0-based, clamped to its length)
Slice(s, a, b) == SubSeq(s, a + 1, Min(b, Len(s)))

HeaderPack(magic, ks, n) == magic \o PackLE(ks, 4) \o PackLE(n, 8)
OffsetPack(off, len) == PackLE(off, 8) \o PackLE(len, 4)

\* bytes comparison of Python: unsigned, lexicographic, a proper prefix is smaller
RECURSIVE BytesLess(_, _)
BytesLess(a, b) ==
    IF b = <<>> THEN FALSE
    ELSE IF a = <<>> THEN TRUE
    ELSE IF Head(a) # Head(b) THEN Head(a) < Head(b)
    ELSE BytesLess(Tail(a), Tail(b))

\* isinstance(key, (bytes, bytearray, memoryview))
IsBytesLike(k) == k.kind \in {"bytes", "bytearray", "memoryview"}

\* ------------------------------------------------------------ inputs
BKey(b) == [kind |-> "bytes", b |-> b]
TextKey == [kind |-> "str", b |-> <<65, 65>>]
KeyByte == {65, 200}
Keys2 == {BKey(<<x, y>>) : x \in KeyByte, y \in KeyByte}
Keys1 == {BKey(<<65>>)}
InputKeys == Keys2 \cup Keys1 \cup {TextKey}
QueryKeys == InputKeys \cup {[kind |-> "memoryview", b |-> <<65, 200>>]}

BVal(b) == [kind |-> "bytes", b |-> b]
SVal(b) == [kind |-> "str", b |-> b]
Values == {BVal(<<>>), BVal(<<72, 105>>), BVal(<<200>>), SVal(<<>>),
           SVal(<<111, 107>>), SVal(<<233>>)}

\* one value per key: all empty, text, short ASCII bytes, raw bytes
Palettes ==
    { [k \in InputKeys |-> BVal(<<>>)],
      [k \in InputKeys |-> SVal(k.b)],
      [k \in InputKeys |-> IF k.b[1] = 65 THEN BVal(<<k.b[Len(k.b)] % 128>>)
                            ELSE BVal(<<k.b[Len(k.b)] % 128, 33>>)],
      [k \in InputKeys |-> BVal(k.b)] }
\* every mapping over these keys is an input, with every choice of values
FreeKeys == {BKey(<<65, 65>>), BKey(<<200, 65>>)}

Range(s) == {s[k] : k \in 1..Len(s)}
DistinctSeqs(S, n) ==
    UNION {{s \in [1..m -> S] : \A p, q \in 1..m : p # q => s[p] # s[q]} : m \in 0..n}

Absent == [exists |-> FALSE, bytes |-> <<>>]
File(bs) == [exists |-> TRUE, bytes |-> bs]
\* file pairs that may lie at the target paths before build is called
BadMagic == <<85, 76, 84, 82, 65, 77, 77, 50>>
StaleStores ==
    { [idx |-> Absent, data |-> Absent],
      [idx |-> File(HeaderPack(BadMagic, 2, 0)), data |-> File(<<120>>)],
      [idx |-> File(<<85, 76, 84>>), data |-> File(<<120>>)],
      [idx |-> File(HeaderPack(MAGIC, 2, 0)), data |-> Absent],
      [idx |-> File(HeaderPack(MAGIC, 2, 0)), data |-> File(<<120>>)] }

\* ------------------------------------------------------------ builder
\* a slip in the key checks: only the first key is looked at
KeyCheckBad(its) ==
    IF ~IsBytesLike(its[1].key) THEN "ValueError" ELSE ""

\* lines 90-100: the key checks; "" when the keys pass
KeyCheck(its) ==
    IF ~IsBytesLike(its[1].key) THEN "ValueError"
    ELSE IF \E k \in 1..Len(its) :
              ~IsBytesLike(its[k].key) \/ Len(its[k].key.b) # Len(its[1].key.b)
         THEN "ValueError" ELSE ""

\* list.sort(key=bytes(kv[0])): stable insertion by key
RECURSIVE InsertItem(_, _)
InsertItem(sorted, it) ==
    IF sorted = <<>> THEN <<it>>
    ELSE IF BytesLess(it.key.b, Head(sorted).key.b)
         THEN <<it>> \o sorted
         ELSE <<Head(sorted)>> \o InsertItem(Tail(sorted), it)

\* a slip in the builder: the items are left in iteration order
SortItemsBad(its) == its

RECURSIVE SortItems(_)
SortItems(its) ==
    IF its = <<>> THEN <<>>
    ELSE InsertItem(SortItems(SubSeq(its, 1, Len(its) - 1)), its[Len(its)])

\* lines 108-111: str.encode("ascii") / bytes(seq); ok = FALSE is UnicodeEncodeError
EncodeValue(v) ==
    IF v.kind = "str"
    THEN [ok |-> \A k \in 1..Len(v.b) : v.b[k] < 128, bytes |-> v.b]
    ELSE [ok |-> TRUE, bytes |-> v.b]

\* bytes.decode("ascii"); ok = FALSE is UnicodeDecodeError
DecodeAscii(bs) ==
    [ok |-> \A k \in 1..Len(bs) : bs[k] < 128, val |-> SVal(bs)]

BuildStart ==
    /\ bpc = "start"
    /\ IF seq_dict = <<>>
       THEN bpc' = "returned" /\ UNCHANGED <<items, bexc>>
       ELSE IF KeyCheck(seq_dict) # ""
            THEN bpc' = "raised" /\ bexc' = KeyCheck(seq_dict) /\ UNCHANGED items
            ELSE bpc' = "open_data" /\ items' = SortItems(seq_dict) /\ UNCHANGED bexc
    /\ UNCHANGED <<seq_dict, idx_file, data_file, idx_buf, data_buf, bi, offset>>
    /\ UNCHANGED <<rvars, svars>>

\* line 104: open(data_path, "wb") creates or truncates
OpenData ==
    /\ bpc = "open_data"
    /\ data_file' = File(<<>>)
    /\ bpc' = "open_idx"
    /\ UNCHANGED <<seq_dict, idx_file, idx_buf, data_buf, items, bi, offset, bexc>>
    /\ UNCHANGED <<rvars, svars>>

OpenIdx ==
    /\ bpc = "open_idx"
    /\ idx_file' = File(<<>>)
    /\ bpc' = "header"
    /\ UNCHANGED <<seq_dict, data_file, idx_buf, data_buf, items, bi, offset, bexc>>
    /\ UNCHANGED <<rvars, svars>>

\* BufferedWriter.write(chunk) on a buffer buf in front of file f: the chunk
\* joins the buffer, or (fl, the buffer has no room) the buffer is written out
\* first.  Which of the two happens depends on the buffer size and on how much
\* has been written before.
Buffered(f, buf, chunk, fl) ==
    IF fl THEN [file |-> File(f.bytes \o buf), buf |-> chunk]
    ELSE [file |-> f, buf |-> buf \o chunk]

\* lines 105-106
WriteHeader ==
    /\ bpc = "header"
    /\ idx_buf' = idx_buf \o HeaderPack(MAGIC, Len(items[1].key.b), Len(items))
    /\ offset' = 0
    /\ bi' = 1
    /\ bpc' = "loop"
    /\ UNCHANGED <<seq_dict, idx_file, data_file, data_buf, items, bexc>>
    /\ UNCHANGED <<rvars, svars>>

\* lines 107-112: next item, encode its value, write it to the data file
WriteData(fl) ==
    /\ bpc = "loop"
    /\ IF bi > Len(items)
       THEN bpc' = "exit_idx" /\ UNCHANGED <<data_file, data_buf, bexc>>
       ELSE LET e == EncodeValue(items[bi].val) IN
            IF e.ok
            THEN /\ bpc' = "key"
                 /\ data_file' = Buffered(data_file, data_buf, e.bytes, fl).file
                 /\ data_buf' = Buffered(data_file, data_buf, e.bytes, fl).buf
                 /\ UNCHANGED bexc
            ELSE /\ bpc' = "exit_idx" /\ bexc' = "UnicodeEncodeError"
                 /\ UNCHANGED <<data_file, data_buf>>
    /\ UNCHANGED <<seq_dict, idx_file, idx_buf, items, bi, offset>>
    /\ UNCHANGED <<rvars, svars>>

\* line 113
WriteKey(fl) ==
    /\ bpc = "key"
    /\ idx_file' = Buffered(idx_file, idx_buf, items[bi].key.b, fl).file
    /\ idx_buf' = Buffered(idx_file, idx_buf, items[bi].key.b, fl).buf
    /\ bpc' = "offlen"
    /\ UNCHANGED <<seq_dict, data_file, data_buf, items, bi, offset, bexc>>
    /\ UNCHANGED <<rvars, svars>>

\* a slip in the running offset: it counts values, not bytes
NextOffsetBad(off, n) == off + 1

\* line 115
NextOffset(off, n) == off + n

\* lines 114-115
WriteOffset(fl) ==
    /\ bpc = "offlen"
    /\ LET n == Len(EncodeValue(items[bi].val).bytes) IN
         /\ idx_file' = Buffered(idx_file, idx_buf, OffsetPack(offset, n), fl).file
         /\ idx_buf' = Buffered(idx_file, idx_buf, OffsetPack(offset, n), fl).buf
         /\ offset' = NextOffset(offset, n)
    /\ bi' = bi + 1
    /\ bpc' = "loop"
    /\ UNCHANGED <<seq_dict, data_file, data_buf, items, bexc>>
    /\ UNCHANGED <<rvars, svars>>

\* line 104, leaving the with block: idx_f (entered last) is closed first
ExitIdx ==
    /\ bpc = "exit_idx"
    /\ idx_file' = File(idx_file.bytes \o idx_buf)
    /\ idx_buf' = <<>>
    /\ bpc' = "exit_data"
    /\ UNCHANGED <<seq_dict, data_file, data_buf, items, bi, offset, bexc>>
    /\ UNCHANGED <<rvars, svars>>

ExitData ==
    /\ bpc = "exit_data"
    /\ data_file' = File(data_file.bytes \o data_buf)
    /\ data_buf' = <<>>
    /\ bpc' = IF bexc = "" THEN "returned" ELSE "raised"
    /\ UNCHANGED <<seq_dict, idx_file, idx_buf, items, bi, offset, bexc>>
    /\ UNCHANGED <<rvars, svars>>

BuildOK == bpc = "returned" /\ seq_dict # <<>>

\* ------------------------------------------------------------ reader
\* lines 12-24: what __init__ acquires before it returns or raises.
\* got = number of resources acquired, in the order of lines 12-15.
InitOutcome(idx, data) ==
    IF ~idx.exists THEN [exc |-> "FileNotFoundError", got |-> 0, ks |-> 0, n |-> 0]
    ELSE IF ~data.exists THEN [exc |-> "FileNotFoundError", got |-> 1, ks |-> 0, n |-> 0]
    ELSE IF idx.bytes = <<>> THEN [exc |-> "ValueError", got |-> 2, ks |-> 0, n |-> 0]
    ELSE IF data.bytes = <<>> THEN [exc |-> "ValueError", got |-> 3, ks |-> 0, n |-> 0]
    ELSE IF Len(idx.bytes) < HEADER_SIZE
         THEN [exc |-> "struct.error", got |-> 4, ks |-> 0, n |-> 0]
    ELSE IF Slice(idx.bytes, 0, 8) # MAGIC
         THEN [exc |-> "ValueError", got |-> 4, ks |-> 0, n |-> 0]
    ELSE [exc |-> "", got |-> 4, ks |-> UnpackLE(Slice(idx.bytes, 8, 12)),
          n |-> UnpackLE(Slice(idx.bytes, 12, 20))]

NoneVal == [kind |-> "None", b |-> <<>>]
NoRes == [op |-> "none", key |-> BKey(<<>>), exc |-> "", n |-> 0, hit |-> FALSE,
          val |-> NoneVal]

\* the reader is opened once build has returned (an empty mapping leaves
\* whatever lay at the paths)
ReaderOpen ==
    /\ rd = "new"
    /\ bpc = "returned"
    /\ LET o == InitOutcome(idx_file, data_file) IN
         /\ index_fd' = IF o.got >= 1 THEN "open" ELSE "none"
         /\ data_fd' = IF o.got >= 2 THEN "open" ELSE "none"
         /\ index_mm' = IF o.got >= 3 THEN "open" ELSE "none"
         /\ data_mm' = IF o.got >= 4 THEN "open" ELSE "none"
         /\ rexc' = o.exc
         /\ rd' = IF o.exc = "" THEN "open" ELSE "failed"
         /\ key_size' = o.ks
         /\ count' = o.n
    /\ UNCHANGED <<closed, cfault, res>>
    /\ UNCHANGED <<bvars, svars>>

\* line 24
RecordSize == key_size + OFFSET_SIZE

\* a slip in the record address: the stride leaves out the offset/length pair
KeyAtBad(idx) ==
    LET base == HEADER_SIZE + (idx * key_size)
    IN  Slice(idx_file.bytes, base, base + key_size)

\* lines 59-61
KeyAt(idx) ==
    LET base == HEADER_SIZE + (idx * RecordSize)
    IN  Slice(idx_file.bytes, base, base + key_size)

\* lines 55-57; ok = FALSE is struct.error (the buffer is too short)
OffsetAndLength(idx) ==
    LET base == HEADER_SIZE + (idx * RecordSize) + key_size
        raw == Slice(idx_file.bytes, base, base + OFFSET_SIZE)
    IN  [ok |-> Len(raw) = OFFSET_SIZE,
         offset |-> UnpackLE(Slice(raw, 0, 8)),
         length |-> UnpackLE(Slice(raw, 8, 12))]

\* a slip in the loop: the midpoint is rounded past the interval
IterateBad(l, h, key) ==
    LET m == ((l + h) \div 2) + 1
        mid_key == KeyAt(m)
    IN  IF mid_key = key THEN [done |-> TRUE, ret |-> m, lo |-> l, hi |-> h, mid |-> m]
        ELSE IF BytesLess(mid_key, key)
             THEN [done |-> FALSE, ret |-> -1, lo |-> m + 1, hi |-> h, mid |-> m]
             ELSE [done |-> FALSE, ret |-> -1, lo |-> l, hi |-> m - 1, mid |-> m]

\* lines 72-79: one iteration of the loop, entered with l <= h
Iterate(l, h, key) ==
    LET m == (l + h) \div 2
        mid_key == KeyAt(m)
    IN  IF mid_key = key THEN [done |-> TRUE, ret |-> m, lo |-> l, hi |-> h, mid |-> m]
        ELSE IF BytesLess(mid_key, key)
             THEN [done |-> FALSE, ret |-> -1, lo |-> m + 1, hi |-> h, mid |-> m]
             ELSE [done |-> FALSE, ret |-> -1, lo |-> l, hi |-> m - 1, mid |-> m]

\* lines 71-80
RECURSIVE SearchLoop(_, _, _)
SearchLoop(l, h, key) ==
    IF l > h THEN -1
    ELSE LET s == Iterate(l, h, key)
         IN  IF s.done THEN s.ret ELSE SearchLoop(s.lo, s.hi, key)

\* lines 64-68: the early returns of _find_index
Rejects(key) == ~IsBytesLike(key) \/ Len(key.b) # key_size

\* lines 63-80; a closed mapping raises ValueError when _key_at slices it
FindIndex(key) ==
    IF Rejects(key) THEN [exc |-> "", idx |-> -1]
    ELSE IF 0 > count - 1 THEN [exc |-> "", idx |-> -1]
    ELSE IF index_mm # "open" THEN [exc |-> "ValueError", idx |-> -1]
    ELSE [exc |-> "", idx |-> SearchLoop(0, count - 1, key.b)]

\* lines 32-37, with default = None
Get(key) ==
    LET f == FindIndex(key) IN
    IF f.exc # "" THEN [exc |-> f.exc, hit |-> FALSE, val |-> NoneVal]
    ELSE IF f.idx < 0 THEN [exc |-> "", hit |-> FALSE, val |-> NoneVal]
    ELSE LET ol == OffsetAndLength(f.idx) IN
         IF ~ol.ok THEN [exc |-> "struct.error", hit |-> FALSE, val |-> NoneVal]
         ELSE IF data_mm # "open" THEN [exc |-> "ValueError", hit |-> FALSE, val |-> NoneVal]
         ELSE LET d == DecodeAscii(Slice(data_file.bytes, ol.offset, ol.offset + ol.length))
              IN  IF d.ok THEN [exc |-> "", hit |-> TRUE, val |-> d.val]
                  ELSE [exc |-> "UnicodeDecodeError", hit |-> FALSE, val |-> NoneVal]

\* lines 39-43
GetItem(key) ==
    LET g == Get(key) IN
    IF g.exc = "" /\ g.val = NoneVal
    THEN [exc |-> "KeyError", hit |-> FALSE, val |-> NoneVal]
    ELSE g

\* lines 29-30
Contains(key) ==
    LET f == FindIndex(key) IN [exc |-> f.exc, hit |-> f.exc = "" /\ f.idx >= 0]

\* lines 26-27
LenOp == [exc |-> "", n |-> count]

Ops == {"len", "contains", "get", "getitem"}

QueryResult(op, key) ==
    CASE op = "len" ->
           [op |-> op, key |-> BKey(<<>>), exc |-> LenOp.exc, n |-> LenOp.n,
            hit |-> FALSE, val |-> NoneVal]
      [] op = "contains" ->
           LET c == Contains(key) IN
           [op |-> op, key |-> key, exc |-> c.exc, n |-> 0, hit |-> c.hit,
            val |-> NoneVal]
      [] op = "get" ->
           LET g == Get(key) IN
           [op |-> op, key |-> key, exc |-> g.exc, n |-> 0, hit |-> g.hit,
            val |-> g.val]
      [] op = "getitem" ->
           LET g == GetItem(key) IN
           [op |-> op, key |-> key, exc |-> g.exc, n |-> 0, hit |-> g.hit,
            val |-> g.val]

Query(op, key) ==
    /\ rd = "open"
    /\ spc = "idle"
    /\ res' = QueryResult(op, key)
    /\ UNCHANGED <<rd, index_fd, data_fd, index_mm, data_mm, key_size, count, rexc,
                   closed, cfault>>
    /\ UNCHANGED <<bvars, svars>>

\* the release call of close() that raises in one call of it, "" for none:
\* mmap.close() raises BufferError while a buffer of the mapping is exported and
\* leaves the mapping open; file.close() may raise OSError, the descriptor is gone
CloseFaults == {"", "index_mm", "index_fd", "data_mm", "data_fd"}

\* lines 45-53.  The first try/finally releases the index pair, and an exception
\* leaving it skips the second try/finally.
CloseOutcome(f) ==
    LET imm == IF f = "index_mm" THEN index_mm ELSE "closed"
        ifd == "closed"
        first == IF f = "index_mm" THEN "BufferError"
                 ELSE IF f = "index_fd" THEN "OSError" ELSE ""
    IN  IF first # ""
        THEN [index_mm |-> imm, index_fd |-> ifd, data_mm |-> data_mm,
              data_fd |-> data_fd, exc |-> first]
        ELSE [index_mm |-> imm, index_fd |-> ifd,
              data_mm |-> IF f = "data_mm" THEN data_mm ELSE "closed",
              data_fd |-> "closed",
              exc |-> IF f = "data_mm" THEN "BufferError"
                      ELSE IF f = "data_fd" THEN "OSError" ELSE ""]

Close(f) ==
    /\ rd = "open"
    /\ spc = "idle"
    /\ f = "index_mm" => index_mm = "open"
    /\ f = "index_fd" => index_fd = "open"
    /\ f = "data_mm" => data_mm = "open"
    /\ f = "data_fd" => data_fd = "open"
    /\ LET o == CloseOutcome(f) IN
         /\ index_mm' = o.index_mm
         /\ index_fd' = o.index_fd
         /\ data_mm' = o.data_mm
         /\ data_fd' = o.data_fd
    /\ cfault' = f
    /\ closed' = TRUE
    /\ res' = NoRes
    /\ UNCHANGED <<rd, key_size, count, rexc>>
    /\ UNCHANGED <<bvars, svars>>

\* ------------------------------------------------------------ _find_index, stepwise
\* lines 64-70.  (On a closed mapping the loop ends at its first probe, which
\* raises: FindIndex.)
SearchBegin(key) ==
    /\ rd = "open" /\ ~closed
    /\ spc = "idle"
    /\ skey' = key
    /\ mid' = -1
    /\ IF Rejects(key)
       THEN spc' = "done" /\ sret' = -1 /\ lo' = 0 /\ hi' = -1
       ELSE spc' = "loop" /\ sret' = -1 /\ lo' = 0 /\ hi' = count - 1
    /\ res' = NoRes
    /\ UNCHANGED <<rd, index_fd, data_fd, index_mm, data_mm, key_size, count, rexc,
                   closed, cfault>>
    /\ UNCHANGED bvars

\* lines 71-80: the loop test, and one iteration
SearchIter ==
    /\ spc = "loop"
    /\ IF lo > hi
       THEN spc' = "done" /\ sret' = -1 /\ UNCHANGED <<lo, hi, mid>>
       ELSE LET s == Iterate(lo, hi, skey.b) IN
              /\ lo' = s.lo /\ hi' = s.hi /\ mid' = s.mid /\ sret' = s.ret
              /\ spc' = IF s.done THEN "done" ELSE "loop"
    /\ UNCHANGED skey
    /\ UNCHANGED <<bvars, rvars>>

\* lines 75, 80: _find_index hands its result to the caller
SearchReturn ==
    /\ spc = "done"
    /\ spc' = "idle" /\ skey' = BKey(<<>>) /\ lo' = 0 /\ hi' = -1 /\ mid' = -1
    /\ sret' = -1
    /\ UNCHANGED <<bvars, rvars>>

\* ------------------------------------------------------------ specification
PaletteInputs ==
    {[k \in DOMAIN ks |-> [key |-> ks[k], val |-> p[ks[k]]]] :
        ks \in DistinctSeqs(InputKeys, MaxEntries), p \in Palettes}
FreeInputs ==
    UNION {{[k \in DOMAIN ks |-> [key |-> ks[k], val |-> vs[k]]] :
              vs \in [DOMAIN ks -> Values]} : ks \in DistinctSeqs(FreeKeys, MaxEntries)}

Init ==
    /\ seq_dict \in PaletteInputs \cup FreeInputs
    /\ \E st \in StaleStores : idx_file = st.idx /\ data_file = st.data
    /\ idx_buf = <<>> /\ data_buf = <<>>
    /\ bpc = "start" /\ items = <<>> /\ bi = 0 /\ offset = 0 /\ bexc = ""
    /\ rd = "new"
    /\ index_fd = "none" /\ data_fd = "none" /\ index_mm = "none" /\ data_mm = "none"
    /\ key_size = 0 /\ count = 0 /\ rexc = "" /\ closed = FALSE /\ cfault = ""
    /\ res = NoRes
    /\ spc = "idle" /\ skey = BKey(<<>>) /\ lo = 0 /\ hi = -1 /\ mid = -1 /\ sret = -1

Next ==
    \/ BuildStart
    \/ OpenData
    \/ OpenIdx
    \/ WriteHeader
    \/ \E fl \in BOOLEAN : WriteData(fl)
    \/ \E fl \in BOOLEAN : WriteKey(fl)
    \/ \E fl \in BOOLEAN : WriteOffset(fl)
    \/ ExitIdx
    \/ ExitData
    \/ ReaderOpen
    \/ \E op \in Ops, key \in QueryKeys : Query(op, key)
    \/ \E f \in CloseFaults : Close(f)
    \/ \E key \in QueryKeys : SearchBegin(key)
    \/ SearchIter
    \/ SearchReturn

Spec == Init /\ [][Next]_vars

\* the loop of _find_index runs to its end once entered (the call is synchronous)
FairSpec == Spec /\ WF_vars(SearchIter)

\* ------------------------------------------------------------ the files, read back
\* the layout of the index file: magic 0..8, key_size 8..12, record_count 12..20,
\* then records of key_size + 12 bytes: key, offset (8 bytes), length (4 bytes)
FileKeySize == UnpackLE(Slice(idx_file.bytes, 8, 12))
FileCount == UnpackLE(Slice(idx_file.bytes, 12, 20))
FileRecord(i) ==
    Slice(idx_file.bytes, HEADER_SIZE + i * (FileKeySize + OFFSET_SIZE),
          HEADER_SIZE + (i + 1) * (FileKeySize + OFFSET_SIZE))
FileKey(i) == Slice(FileRecord(i), 0, FileKeySize)
FileOffset(i) == UnpackLE(Slice(FileRecord(i), FileKeySize, FileKeySize + 8))
FileLength(i) == UnpackLE(Slice(FileRecord(i), FileKeySize + 8, FileKeySize + OFFSET_SIZE))
IndexComplete ==
    /\ idx_file.exists
    /\ Len(idx_file.bytes) >= HEADER_SIZE
    /\ Slice(idx_file.bytes, 0, 8) = MAGIC
    /\ Len(idx_file.bytes) = HEADER_SIZE + FileCount * (FileKeySize + OFFSET_SIZE)

\* unsigned lexicographic order on byte sequences
LexLess(a, b) ==
    \E k \in 1..(Min(Len(a), Len(b)) + 1) :
        /\ \A j \in 1..(k - 1) : a[j] = b[j]
        /\ \/ k > Len(a) /\ k <= Len(b)
           \/ k <= Len(a) /\ k <= Len(b) /\ a[k] < b[k]

InputKeyBytes == {seq_dict[k].key.b : k \in 1..Len(seq_dict)}
InputValue(kb) == (CHOOSE it \in Range(seq_dict) : it.key.b = kb).val
KeysUniform(d) ==
    /\ \A k \in 1..Len(d) : IsBytesLike(d[k].key)
    /\ \A j, k \in 1..Len(d) : Len(d[j].key.b) = Len(d[k].key.b)
TextIsAscii(d) ==
    \A k \in 1..Len(d) :
        d[k].val.kind = "str" => \A j \in 1..Len(d[k].val.b) : d[k].val.b[j] < 128
\* build has created both files and has not left the with block
Writing == bpc \in {"header", "loop", "key", "offlen", "exit_idx", "exit_data"}

\* ------------------------------------------------------------ claims
\* C1: on an open store that build produced, `key in store` is true exactly for
\* the byte sequences that were input keys, and false for every other query
\* (another byte sequence of the same length, one of another length, a key
\* that is not bytes).
C1_ContainsExactlyInputKeys ==
    (BuildOK /\ rd = "open" /\ ~closed /\ res.op = "contains") =>
        /\ res.exc = ""
        /\ res.hit <=> (IsBytesLike(res.key) /\ res.key.b \in InputKeyBytes)
C1_Witness ==
    /\ BuildOK /\ rd = "open" /\ ~closed /\ res.op = "contains"
    /\ Len(seq_dict) >= 3 /\ res.hit /\ res.key.b = <<200, 65>>

\* C2: for any non-empty mapping with uniform key length (its text values
\* ASCII), build then open then get(key) on every input key succeeds and
\* returns the bytes of the original value.
C2_RoundTrip ==
    (seq_dict # <<>> /\ KeysUniform(seq_dict) /\ TextIsAscii(seq_dict)) =>
        /\ bpc # "raised"
        /\ rd # "failed"
        /\ (rd = "open" /\ ~closed /\ res.op = "get" /\ IsBytesLike(res.key)
              /\ res.key.b \in InputKeyBytes) =>
             (res.exc = "" /\ res.hit /\ res.val.b = InputValue(res.key.b).b)

\* C3: at every point of build after it has created its files, and once it has
\* returned, an index file that is complete on disk (header plus record_count
\* records) refers only to value bytes that are in the data file on disk.
C3_CompleteIndexHasItsData ==
    ((Writing \/ BuildOK) /\ IndexComplete) =>
        /\ data_file.exists
        /\ \A i \in 0..(FileCount - 1) :
              FileOffset(i) + FileLength(i) <= Len(data_file.bytes)

\* C4: once close() has returned or raised, every resource other than the one
\* whose release raised is released.
C4_CloseReleasesAll ==
    closed =>
        /\ cfault # "index_mm" => index_mm = "closed"
        /\ cfault # "index_fd" => index_fd = "closed"
        /\ cfault # "data_mm" => data_mm = "closed"
        /\ cfault # "data_fd" => data_fd = "closed"

\* C5: a constructor that raises (bad magic, a missing file, a failed mmap, a
\* short header) leaves no mapping and no file handle open.
C5_FailedOpenLeavesNothingOpen ==
    rd = "failed" =>
        index_fd # "open" /\ data_fd # "open" /\ index_mm # "open" /\ data_mm # "open"

\* C6: when a key is not bytes or the keys differ in length, build raises
\* ValueError as its first step and no step of it creates, truncates or writes
\* a file.
C6_InvalidKeysTouchNoFile ==
    [][(seq_dict # <<>> /\ ~KeysUniform(seq_dict)) =>
         /\ idx_file' = idx_file /\ data_file' = data_file
         /\ idx_buf' = <<>> /\ data_buf' = <<>>
         /\ bpc = "start" => (bpc' = "raised" /\ bexc' = "ValueError")]_vars
C6_Witness ==
    /\ bpc = "raised" /\ bexc = "ValueError"
    /\ Len(seq_dict) >= 2 /\ IsBytesLike(seq_dict[1].key)
    /\ idx_file.exists /\ data_file.exists /\ rd = "new"

\* C7: after a successful build the header's record_count is the number of
\* input entries, the file holds exactly that many records, and the key of
\* record i is strictly below the key of record i+1.
C7_RecordsStrictlyAscending ==
    BuildOK =>
        /\ IndexComplete
        /\ FileCount = Len(seq_dict)
        /\ \A i \in 0..(FileCount - 2) : LexLess(FileKey(i), FileKey(i + 1))
C7_Witness ==
    /\ BuildOK /\ Len(seq_dict) >= 3
    /\ BytesLess(seq_dict[2].key.b, seq_dict[1].key.b)
    /\ FileKey(0) = seq_dict[2].key.b

\* C8: after a successful build the data file is the values laid end to end in
\* record order: record 0 starts at 0, each record starts where the one before
\* ends, the last one ends at the end of the file, and the bytes of record i
\* are the value of its key.
C8_DataIsContiguous ==
    BuildOK =>
        /\ FileCount > 0 => FileOffset(0) = 0
        /\ \A i \in 0..(FileCount - 2) :
              FileOffset(i + 1) = FileOffset(i) + FileLength(i)
        /\ \A i \in 0..(FileCount - 1) :
              /\ FileOffset(i) + FileLength(i) <= Len(data_file.bytes)
              /\ Slice(data_file.bytes, FileOffset(i), FileOffset(i) + FileLength(i))
                   = InputValue(FileKey(i)).b
        /\ FileCount > 0 =>
              FileOffset(FileCount - 1) + FileLength(FileCount - 1) = Len(data_file.bytes)
C8_Witness ==
    /\ BuildOK /\ FileCount >= 3 /\ seq_dict[1].key.b = <<200, 65>>
    /\ FileOffset(1) = 1 /\ FileOffset(2) = 2 /\ FileLength(2) = 2

\* C9: after close() every query raises instead of returning a result.
C9_QueryAfterCloseRaises ==
    (closed /\ res.op # "none") => res.exc # ""

\* C10: every iteration of the loop of _find_index probes a record inside
\* [lo, hi], itself inside [0, record_count - 1], and then returns mid or
\* leaves a strictly smaller interval; with no records nothing is probed and
\* the result is -1; the loop, once entered, ends.
C10_SearchTerminates ==
    /\ [][(spc = "loop" /\ lo <= hi) =>
            /\ 0 <= lo /\ hi <= count - 1
            /\ lo <= mid' /\ mid' <= hi
            /\ \/ spc' = "done" /\ sret' = mid'
               \/ spc' = "loop" /\ hi' - lo' < hi - lo]_vars
    /\ []((rd = "open" /\ count = 0 /\ spc = "done") => (sret = -1 /\ mid = -1))
    /\ (spc = "loop") ~> (spc = "done")
C10_Witness ==
    spc = "done" /\ count >= 3 /\ sret = 0 /\ mid = 0 /\ hi = 0

====
